---- MODULE Spec2Model ----
(***************************************************************************)
(* Escrow program (Make / Take / Refund) over a small account universe.   *)
(*                                                                         *)
(* The handlers process_take_instruction and process_refund_instruction   *)
(* are translated from src/src/instructions/{take,refund}.rs.  The token  *)
(* program's Transfer and CloseAccount, which they invoke, follow the SPL *)
(* Token processor.  Make is not among the sources; it is modelled from   *)
(* section 4.2 of the specification.                                       *)
(*                                                                         *)
(* An instruction runs as one atomic step: the handler's result is        *)
(* committed when it returns Ok and discarded when it returns an error.   *)
(* `last` records the most recent instruction (inputs, result, the CPI    *)
(* steps it executed and the accounts before it ran); NextTransaction     *)
(* forgets it before the following instruction is submitted.              *)
(***************************************************************************)
EXTENDS Integers, Sequences, FiniteSets, TLC

VARIABLES
    tokens,     \* token account address -> [exists, owner, mint, amount, lamports]
    escrows,    \* escrow account address -> account (owner program, data, lamports)
    lamports,   \* wallet address -> reserve (lamport) balance
    ghost,      \* per derived escrow address: history of the escrow opened there
    budget,     \* [makes, env]: instructions still allowed by the bounds
    last        \* the most recent instruction and its outcome

vars == <<tokens, escrows, lamports, ghost, budget, last>>

---------------------------------------------------------------------------
(* Bounds of the model *)

MaxAmount == 2      \* amount_to_receive and amount_to_give range over 1..MaxAmount
InitBalance == 2    \* tokens minted to the maker (asset A) and to the taker (asset B)
MaxMakes == 2       \* number of successful Make instructions in a behaviour
MaxEnv == 2         \* number of third-party token instructions in a behaviour
Rent == 1           \* reserve deposited in a newly created account
InitLamports == 5   \* reserve of each wallet at the start
U64Max == 8         \* largest value of the (narrowed) unsigned balances

(* Program constants *)

TakeAccounts == 10      \* accounts destructured by process_take_instruction
RefundAccounts == 7     \* accounts destructured by process_refund_instruction

---------------------------------------------------------------------------
(* Addresses *)

ID == "program"             \* crate::ID
SystemProgram == "system"   \* the all-zero address: owner of a closed account
ZeroKey == SystemProgram
Unread == "unread"          \* an input the handler returned before reading

Wallets == {"M", "T"}
Makers == {"M"}
Mints == {"A", "B"}
Bumps == {255}
Forged == "forged"          \* program-owned, zero-filled account at a non-derived address

\* pinocchio_pubkey::derive_address(["escrow", maker, [bump]], None, crate::ID):
\* a hash of the seeds, deterministic and injective on (maker, bump).
derive_address(maker, bump) == "escrow/" \o maker \o "/" \o ToString(bump)

\* the associated token address of (owner, mint)
get_associated_token_address(owner, mint) == "ata/" \o owner \o "/" \o mint

PDAs == {derive_address(m, b) : m \in Makers, b \in Bumps}
EscrowAddrs == PDAs \cup {Forged}
Fake == "fake"              \* a token account at a non-associated address
TokenAddrs ==
    {get_associated_token_address(o, m) : o \in Wallets \cup PDAs, m \in Mints}
        \cup {Fake}
Amounts == 1..MaxAmount

---------------------------------------------------------------------------
(* Accounts.  A machine state s is [tokens, escrows, lamports]. *)

TokenProgram == "token"

NoToken ==
    [exists |-> FALSE, owner |-> SystemProgram, mint |-> "-", amount |-> 0, lamports |-> 0]

\* AccountView::close(): owner, lamports and data length are zeroed
ClosedAccount ==
    [owner |-> SystemProgram, data |-> "empty", maker |-> ZeroKey, mint_a |-> ZeroKey,
     mint_b |-> ZeroKey, amount_to_receive |-> 0, amount_to_give |-> 0, bump |-> 0,
     lamports |-> 0]

\* an account created by a third party and assigned to the program: its data is
\* of the escrow's length and all zero, since only the program can write it
ForgedAccount ==
    [ClosedAccount EXCEPT !.owner = ID, !.data = "escrow", !.lamports = Rent]

\* AccountView::owned_by
owned_by(s, account, program) ==
    IF account \in DOMAIN s.escrows THEN s.escrows[account].owner = program
    ELSE IF account \in DOMAIN s.tokens /\ s.tokens[account].exists
         THEN program = TokenProgram
    ELSE program = SystemProgram

\* Escrow::from_account_info succeeds on an account holding an escrow's data
EscrowLoads(s, account) ==
    account \in DOMAIN s.escrows /\ s.escrows[account].data = "escrow"

\* TokenAccount::from_account_view succeeds on an initialized token account
TokenLoads(s, account) ==
    account \in DOMAIN s.tokens /\ s.tokens[account].exists

saturating_add(a, b) == IF a + b > U64Max THEN U64Max ELSE a + b

RECURSIVE SumOver(_, _)
SumOver(f, S) ==
    IF S = {} THEN 0
    ELSE LET x == CHOOSE y \in S : TRUE IN f[x] + SumOver(f, S \ {x})

\* the reserve held by all accounts together
TotalLamports(s) ==
    SumOver(s.lamports, DOMAIN s.lamports)
        + SumOver([a \in DOMAIN s.tokens |-> s.tokens[a].lamports], DOMAIN s.tokens)
        + SumOver([a \in DOMAIN s.escrows |-> s.escrows[a].lamports], DOMAIN s.escrows)

\* the units of a mint held by all token accounts together
TotalSupply(s, mint) ==
    SumOver([a \in DOMAIN s.tokens |->
                IF s.tokens[a].exists /\ s.tokens[a].mint = mint
                THEN s.tokens[a].amount ELSE 0],
            DOMAIN s.tokens)

---------------------------------------------------------------------------
(* The token program's instructions, as invoked through CPI.  `signed` says
   whether the authority account signs the inner instruction: it signed the
   transaction, or the caller's signer seeds derive its address. *)

CpiOk(s) == [err |-> "Ok", s |-> s]
CpiErr(code, s) == [err |-> code, s |-> s]

TokenTransfer(s, from, to, authority, signed, amount) ==
    IF ~TokenLoads(s, from) \/ ~TokenLoads(s, to) THEN CpiErr("InvalidAccountData", s)
    ELSE IF s.tokens[from].amount < amount THEN CpiErr("InsufficientFunds", s)
    ELSE IF s.tokens[from].mint # s.tokens[to].mint THEN CpiErr("MintMismatch", s)
    ELSE IF s.tokens[from].owner # authority THEN CpiErr("OwnerMismatch", s)
    ELSE IF ~signed THEN CpiErr("MissingRequiredSignature", s)
    ELSE IF from = to \/ amount = 0 THEN CpiOk(s)
    ELSE IF s.tokens[to].amount + amount > U64Max THEN CpiErr("Overflow", s)
    ELSE CpiOk([s EXCEPT !.tokens[from].amount = @ - amount,
                         !.tokens[to].amount = @ + amount])

\* destination is a wallet; it must be writable in the outer instruction for
\* the inner instruction to credit it
TokenCloseAccount(s, account, destination, writable, authority, signed) ==
    IF ~writable THEN CpiErr("PrivilegeEscalation", s)
    ELSE IF ~TokenLoads(s, account) THEN CpiErr("InvalidAccountData", s)
    ELSE IF s.tokens[account].amount # 0 THEN CpiErr("NonNativeHasBalance", s)
    ELSE IF s.tokens[account].owner # authority THEN CpiErr("OwnerMismatch", s)
    ELSE IF ~signed THEN CpiErr("MissingRequiredSignature", s)
    ELSE IF s.lamports[destination] + s.tokens[account].lamports > U64Max
         THEN CpiErr("Overflow", s)
    ELSE CpiOk([s EXCEPT !.lamports[destination] = @ + s.tokens[account].lamports,
                         !.tokens[account] = NoToken])

---------------------------------------------------------------------------
(* Handler results: the error (or "Ok"), the number of input groups the
   handler had read when it returned, the CPI steps it completed, and the
   accounts as the handler left them. *)

Return(err, reads, log, s) == [err |-> err, reads |-> reads, log |-> log, s |-> s]

\* the signer seeds ["escrow", maker, [bump]] sign for the address they derive
SeedsSignFor(maker, bump, authority) == derive_address(maker, bump) = authority

---------------------------------------------------------------------------
(* Take.  ix = [n, taker, taker_signer, escrow_account, maker, mint_b,
   taker_ata_b, maker_ata_b, mint_a, taker_ata_a, escrow_ata, maker_writable].
   Input groups in the order the handler reads them:
   1 n (are there TakeAccounts accounts); 2 taker; 3 escrow_account; 4 maker;
   5 taker_ata_b and mint_b; 6 maker_ata_b; 7 taker_ata_a and mint_a;
   8 escrow_ata; 9 maker_writable, and whether accounts follow the required
   ones (_remaining, which the handler never reads). *)

\* variant: a list longer than the required accounts is rejected as well
TakeAccountsNotExact(ix) == ix.n # TakeAccounts

\* let [taker, ..., system_program, _remaining @ ..] = accounts else {...}
TakeNotEnoughAccountKeys(ix) == ix.n < TakeAccounts

TakeEscrowNotOwned(s, ix) == ~owned_by(s, ix.escrow_account, ID)

\* variant: the address derivation is checked before the stored maker
TakeMakerMismatchAfterSeeds(s, ix) ==
    /\ s.escrows[ix.escrow_account].maker # ix.maker
    /\ derive_address(ix.maker, s.escrows[ix.escrow_account].bump) = ix.escrow_account

TakeMakerMismatch(s, ix) == s.escrows[ix.escrow_account].maker # ix.maker

TakeSeedsMismatch(s, ix) ==
    derive_address(ix.maker, s.escrows[ix.escrow_account].bump) # ix.escrow_account

TakeTakerAtaBInvalid(s, ix) ==
    \/ s.tokens[ix.taker_ata_b].owner # ix.taker
    \/ s.tokens[ix.taker_ata_b].mint # ix.mint_b

TakeMakerAtaBInvalid(s, ix) ==
    \/ s.tokens[ix.maker_ata_b].owner # ix.maker
    \/ s.tokens[ix.maker_ata_b].mint # ix.mint_b

TakeTakerAtaAInvalid(s, ix) ==
    \/ s.tokens[ix.taker_ata_a].owner # ix.taker
    \/ s.tokens[ix.taker_ata_a].mint # ix.mint_a

\* variant: the custody balance is not compared with amount_to_give
TakeEscrowAtaInvalidNoBalance(s, ix, amount_to_give) ==
    \/ s.tokens[ix.escrow_ata].owner # ix.escrow_account
    \/ s.tokens[ix.escrow_ata].mint # ix.mint_a

TakeEscrowAtaInvalid(s, ix, amount_to_give) ==
    \/ s.tokens[ix.escrow_ata].owner # ix.escrow_account
    \/ s.tokens[ix.escrow_ata].mint # ix.mint_a
    \/ s.tokens[ix.escrow_ata].amount < amount_to_give

\* variant: the taker pays amount_to_give instead of amount_to_receive
TakeTransferBPaysGive(s, ix, amount_to_receive) ==
    TokenTransfer(s, ix.taker_ata_b, ix.maker_ata_b, ix.taker, ix.taker_signer,
                  s.escrows[ix.escrow_account].amount_to_give)

\* variant: the result of the taker's transfer is not propagated
TakeTransferBUnchecked(s, ix, amount_to_receive) ==
    CpiOk(TokenTransfer(s, ix.taker_ata_b, ix.maker_ata_b, ix.taker, ix.taker_signer,
                        amount_to_receive).s)

\* Transfer {from: taker_ata_b, to: maker_ata_b, authority: taker}.invoke()
TakeTransferB(s, ix, amount_to_receive) ==
    TokenTransfer(s, ix.taker_ata_b, ix.maker_ata_b, ix.taker, ix.taker_signer,
                  amount_to_receive)

\* Transfer {from: escrow_ata, to: taker_ata_a, authority: escrow_account}
\*     .invoke_signed
TakeTransferA(s, ix, amount_to_give, bump) ==
    TokenTransfer(s, ix.escrow_ata, ix.taker_ata_a, ix.escrow_account,
                  SeedsSignFor(ix.maker, bump, ix.escrow_account), amount_to_give)

\* variant: the program releases the deposit before the taker has paid
TakeTransfersReleaseFirst(s, ix, amount_to_receive, amount_to_give, bump) ==
    LET r1 == TakeTransferA(s, ix, amount_to_give, bump) IN
    IF r1.err # "Ok" THEN [err |-> r1.err, log |-> <<>>, s |-> r1.s]
    ELSE
    LET r2 == TakeTransferB(r1.s, ix, amount_to_receive) IN
    IF r2.err # "Ok" THEN [err |-> r2.err, log |-> <<"transfer_a">>, s |-> r2.s]
    ELSE [err |-> "Ok", log |-> <<"transfer_a", "transfer_b">>, s |-> r2.s]

\* the two transfers in the order the handler invokes them; `?` returns the
\* first error
TakeTransfers(s, ix, amount_to_receive, amount_to_give, bump) ==
    LET r1 == TakeTransferB(s, ix, amount_to_receive) IN
    IF r1.err # "Ok" THEN [err |-> r1.err, log |-> <<>>, s |-> r1.s]
    ELSE
    LET r2 == TakeTransferA(r1.s, ix, amount_to_give, bump) IN
    IF r2.err # "Ok" THEN [err |-> r2.err, log |-> <<"transfer_b">>, s |-> r2.s]
    ELSE [err |-> "Ok", log |-> <<"transfer_b", "transfer_a">>, s |-> r2.s]

\* variant: the custody account is removed whatever it still holds
TakeCloseVaultForced(s, ix, bump) ==
    IF ~ix.maker_writable THEN CpiErr("PrivilegeEscalation", s)
    ELSE CpiOk([s EXCEPT !.lamports[ix.maker] = @ + s.tokens[ix.escrow_ata].lamports,
                         !.tokens[ix.escrow_ata] = NoToken])

\* CloseAccount {account: escrow_ata, destination: maker, authority:
\*     escrow_account}.invoke_signed
TakeCloseVault(s, ix, bump) ==
    TokenCloseAccount(s, ix.escrow_ata, ix.maker, ix.maker_writable, ix.escrow_account,
                      SeedsSignFor(ix.maker, bump, ix.escrow_account))

\* variant: the record's reserve is drained but the account is not closed
TakeReclaimKeepsRecord(s, ix) ==
    [s EXCEPT !.lamports[ix.maker] =
                  saturating_add(@, s.escrows[ix.escrow_account].lamports),
              !.escrows[ix.escrow_account].lamports = 0]

\* variant: the record's reserve is credited to the taker
TakeReclaimToTaker(s, ix) ==
    [s EXCEPT !.lamports[ix.taker] =
                  saturating_add(@, s.escrows[ix.escrow_account].lamports),
              !.escrows[ix.escrow_account] = ClosedAccount]

\* maker.set_lamports(maker.lamports().saturating_add(escrow_account.lamports()));
\* escrow_account.close()
TakeReclaim(s, ix) ==
    [s EXCEPT !.lamports[ix.maker] =
                  saturating_add(@, s.escrows[ix.escrow_account].lamports),
              !.escrows[ix.escrow_account] = ClosedAccount]

process_take_instruction(s, ix) ==
    IF TakeNotEnoughAccountKeys(ix) THEN Return("NotEnoughAccountKeys", 1, <<>>, s)
    ELSE IF ~ix.taker_signer THEN Return("MissingRequiredSignature", 2, <<>>, s)
    ELSE IF TakeEscrowNotOwned(s, ix) THEN Return("IllegalOwner", 3, <<>>, s)
    ELSE IF ~EscrowLoads(s, ix.escrow_account)
         THEN Return("InvalidAccountData", 3, <<>>, s)
    ELSE
    LET escrow_state == s.escrows[ix.escrow_account]
        amount_to_receive == escrow_state.amount_to_receive
        amount_to_give == escrow_state.amount_to_give
        bump == escrow_state.bump
    IN
    IF TakeMakerMismatch(s, ix) THEN Return("InvalidAccountData", 4, <<>>, s)
    ELSE IF TakeSeedsMismatch(s, ix) THEN Return("InvalidSeeds", 4, <<>>, s)
    ELSE IF ~TokenLoads(s, ix.taker_ata_b) THEN Return("InvalidAccountData", 5, <<>>, s)
    ELSE IF TakeTakerAtaBInvalid(s, ix) THEN Return("InvalidAccountData", 5, <<>>, s)
    ELSE IF ~TokenLoads(s, ix.maker_ata_b) THEN Return("InvalidAccountData", 6, <<>>, s)
    ELSE IF TakeMakerAtaBInvalid(s, ix) THEN Return("InvalidAccountData", 6, <<>>, s)
    ELSE IF ~TokenLoads(s, ix.taker_ata_a) THEN Return("InvalidAccountData", 7, <<>>, s)
    ELSE IF TakeTakerAtaAInvalid(s, ix) THEN Return("InvalidAccountData", 7, <<>>, s)
    ELSE IF ~TokenLoads(s, ix.escrow_ata) THEN Return("InvalidAccountData", 8, <<>>, s)
    ELSE IF TakeEscrowAtaInvalid(s, ix, amount_to_give)
         THEN Return("InvalidAccountData", 8, <<>>, s)
    ELSE
    LET r2 == TakeTransfers(s, ix, amount_to_receive, amount_to_give, bump) IN
    IF r2.err # "Ok" THEN Return(r2.err, 8, r2.log, r2.s)
    ELSE
    LET r3 == TakeCloseVault(r2.s, ix, bump) IN
    IF r3.err # "Ok" THEN Return(r3.err, 9, r2.log, r3.s)
    ELSE
    Return("Ok", 9, r2.log \o <<"close_vault", "reclaim">>, TakeReclaim(r3.s, ix))

---------------------------------------------------------------------------
(* Refund.  ix = [n, maker, maker_signer, escrow_account, mint_a, mint_b,
   maker_ata_a, escrow_ata, maker_writable].  Input groups in the order the
   handler reads them: 1 n (are there RefundAccounts accounts); 2 maker;
   3 escrow_account; 4 mint_a and mint_b; 5 maker_ata_a; 6 escrow_ata;
   7 maker_writable, and whether accounts follow the required ones. *)

\* let [maker, ..., system_program, _remaining @ ..] = accounts else {...}
RefundNotEnoughAccountKeys(ix) == ix.n < RefundAccounts

RefundEscrowNotOwned(s, ix) == ~owned_by(s, ix.escrow_account, ID)

\* variant: the stored maker is not compared with the supplied maker
RefundStateMismatchMintsOnly(s, ix) ==
    \/ s.escrows[ix.escrow_account].mint_a # ix.mint_a
    \/ s.escrows[ix.escrow_account].mint_b # ix.mint_b

RefundStateMismatch(s, ix) ==
    \/ s.escrows[ix.escrow_account].maker # ix.maker
    \/ s.escrows[ix.escrow_account].mint_a # ix.mint_a
    \/ s.escrows[ix.escrow_account].mint_b # ix.mint_b

RefundSeedsMismatch(s, ix) ==
    derive_address(ix.maker, s.escrows[ix.escrow_account].bump) # ix.escrow_account

RefundMakerAtaAInvalid(s, ix) ==
    \/ s.tokens[ix.maker_ata_a].owner # ix.maker
    \/ s.tokens[ix.maker_ata_a].mint # ix.mint_a

RefundEscrowAtaInvalid(s, ix, amount_to_give) ==
    \/ s.tokens[ix.escrow_ata].owner # ix.escrow_account
    \/ s.tokens[ix.escrow_ata].mint # ix.mint_a
    \/ s.tokens[ix.escrow_ata].amount < amount_to_give

\* Transfer {from: escrow_ata, to: maker_ata_a, authority: escrow_account}
\*     .invoke_signed
RefundTransfer(s, ix, amount_to_give, bump) ==
    TokenTransfer(s, ix.escrow_ata, ix.maker_ata_a, ix.escrow_account,
                  SeedsSignFor(ix.maker, bump, ix.escrow_account), amount_to_give)

\* variant: the custody account is left open
RefundCloseVaultSkipped(s, ix, bump) == CpiOk(s)

\* CloseAccount {account: escrow_ata, destination: maker, authority:
\*     escrow_account}.invoke_signed
RefundCloseVault(s, ix, bump) ==
    TokenCloseAccount(s, ix.escrow_ata, ix.maker, ix.maker_writable, ix.escrow_account,
                      SeedsSignFor(ix.maker, bump, ix.escrow_account))

\* maker.set_lamports(maker.lamports().saturating_add(escrow_account.lamports()));
\* escrow_account.close()
RefundReclaim(s, ix) ==
    [s EXCEPT !.lamports[ix.maker] =
                  saturating_add(@, s.escrows[ix.escrow_account].lamports),
              !.escrows[ix.escrow_account] = ClosedAccount]

process_refund_instruction(s, ix) ==
    IF RefundNotEnoughAccountKeys(ix) THEN Return("NotEnoughAccountKeys", 1, <<>>, s)
    ELSE IF ~ix.maker_signer THEN Return("MissingRequiredSignature", 2, <<>>, s)
    ELSE IF RefundEscrowNotOwned(s, ix) THEN Return("IllegalOwner", 3, <<>>, s)
    ELSE IF ~EscrowLoads(s, ix.escrow_account)
         THEN Return("InvalidAccountData", 3, <<>>, s)
    ELSE
    LET escrow_state == s.escrows[ix.escrow_account]
        amount_to_give == escrow_state.amount_to_give
        bump == escrow_state.bump
    IN
    IF RefundStateMismatch(s, ix) THEN Return("InvalidAccountData", 4, <<>>, s)
    ELSE IF RefundSeedsMismatch(s, ix) THEN Return("InvalidSeeds", 4, <<>>, s)
    ELSE IF ~TokenLoads(s, ix.maker_ata_a) THEN Return("InvalidAccountData", 5, <<>>, s)
    ELSE IF RefundMakerAtaAInvalid(s, ix) THEN Return("InvalidAccountData", 5, <<>>, s)
    ELSE IF ~TokenLoads(s, ix.escrow_ata) THEN Return("InvalidAccountData", 6, <<>>, s)
    ELSE IF RefundEscrowAtaInvalid(s, ix, amount_to_give)
         THEN Return("InvalidAccountData", 6, <<>>, s)
    ELSE
    LET r1 == RefundTransfer(s, ix, amount_to_give, bump) IN
    IF r1.err # "Ok" THEN Return(r1.err, 6, <<>>, r1.s)
    ELSE
    LET r2 == RefundCloseVault(r1.s, ix, bump) IN
    IF r2.err # "Ok" THEN Return(r2.err, 7, <<"transfer_a">>, r2.s)
    ELSE
    Return("Ok", 7, <<"transfer_a", "close_vault", "reclaim">>, RefundReclaim(r2.s, ix))

---------------------------------------------------------------------------
(* Make, from section 4.2 of the specification.  ix = [maker, maker_signer,
   escrow_account, bump, mint_a, maker_ata_a, vault, mint_b,
   amount_to_receive, amount_to_give].  Input groups: 1 maker; 2
   escrow_account and bump; 3 mint_a and maker_ata_a; 4 vault; 5 mint_b and
   the amounts. *)

MakeRecord(ix) ==
    [owner |-> ID, data |-> "escrow", maker |-> ix.maker, mint_a |-> ix.mint_a,
     mint_b |-> ix.mint_b, amount_to_receive |-> ix.amount_to_receive,
     amount_to_give |-> ix.amount_to_give, bump |-> ix.bump, lamports |-> Rent]

MakeVault(ix) ==
    [exists |-> TRUE, owner |-> ix.escrow_account, mint |-> ix.mint_a, amount |-> 0,
     lamports |-> Rent]

\* variant: amount_to_receive is deposited instead of amount_to_give
MakeDepositReceiveAmount(s, ix) ==
    TokenTransfer(s, ix.maker_ata_a, ix.vault, ix.maker, ix.maker_signer,
                  ix.amount_to_receive)

MakeDeposit(s, ix) ==
    TokenTransfer(s, ix.maker_ata_a, ix.vault, ix.maker, ix.maker_signer,
                  ix.amount_to_give)

process_make_instruction(s, ix) ==
    IF ~ix.maker_signer THEN Return("MissingRequiredSignature", 1, <<>>, s)
    ELSE IF derive_address(ix.maker, ix.bump) # ix.escrow_account
         THEN Return("InvalidSeeds", 2, <<>>, s)
    ELSE IF ~owned_by(s, ix.escrow_account, SystemProgram)
         THEN Return("AccountAlreadyInitialized", 2, <<>>, s)
    ELSE IF ~TokenLoads(s, ix.maker_ata_a) THEN Return("InvalidAccountData", 3, <<>>, s)
    ELSE IF \/ s.tokens[ix.maker_ata_a].owner # ix.maker
            \/ s.tokens[ix.maker_ata_a].mint # ix.mint_a
         THEN Return("InvalidAccountData", 3, <<>>, s)
    ELSE IF ix.vault # get_associated_token_address(ix.escrow_account, ix.mint_a)
         THEN Return("InvalidSeeds", 4, <<>>, s)
    ELSE IF TokenLoads(s, ix.vault) THEN Return("AccountAlreadyInitialized", 4, <<>>, s)
    ELSE IF s.lamports[ix.maker] < Rent + Rent
         THEN Return("InsufficientFunds", 4, <<>>, s)
    ELSE
    LET s1 == [s EXCEPT !.lamports[ix.maker] = @ - (Rent + Rent),
                        !.escrows[ix.escrow_account] = MakeRecord(ix),
                        !.tokens[ix.vault] = MakeVault(ix)]
        r1 == MakeDeposit(s1, ix)
    IN
    IF r1.err # "Ok" THEN Return(r1.err, 5, <<"create_escrow", "create_vault">>, r1.s)
    ELSE Return("Ok", 5, <<"create_escrow", "create_vault", "deposit">>, r1.s)

---------------------------------------------------------------------------
(* Instructions as submitted: every combination of the inputs a handler reads.
   Inputs the handler returned before reading are left Unread. *)

UnreadTake ==
    [n |-> 0, taker |-> Unread, taker_signer |-> FALSE, escrow_account |-> Unread,
     maker |-> Unread, mint_b |-> Unread, taker_ata_b |-> Unread,
     maker_ata_b |-> Unread, mint_a |-> Unread, taker_ata_a |-> Unread,
     escrow_ata |-> Unread, maker_writable |-> FALSE]

TakeDraw(k, ix) ==
    CASE k = 1 -> {[ix EXCEPT !.n = n] : n \in (TakeAccounts - 1)..TakeAccounts}
      [] k = 2 -> {[ix EXCEPT !.taker = t, !.taker_signer = b] :
                      t \in Wallets, b \in BOOLEAN}
      [] k = 3 -> {[ix EXCEPT !.escrow_account = e] : e \in EscrowAddrs}
      [] k = 4 -> {[ix EXCEPT !.maker = m] : m \in Wallets \cup {ZeroKey}}
      [] k = 5 -> {[ix EXCEPT !.taker_ata_b = a, !.mint_b = m] :
                      a \in TokenAddrs, m \in Mints}
      [] k = 6 -> {[ix EXCEPT !.maker_ata_b = a] : a \in TokenAddrs}
      [] k = 7 -> {[ix EXCEPT !.taker_ata_a = a, !.mint_a = m] :
                      a \in TokenAddrs, m \in Mints}
      [] k = 8 -> {[ix EXCEPT !.escrow_ata = a] : a \in TokenAddrs}
      [] OTHER -> {[ix EXCEPT !.maker_writable = b, !.n = n] :
                      b \in BOOLEAN, n \in TakeAccounts..(TakeAccounts + 1)}

RECURSIVE TakeIxs(_, _, _)
TakeIxs(s, k, ix) ==
    IF k > 9 \/ process_take_instruction(s, ix).reads < k THEN {ix}
    ELSE UNION {TakeIxs(s, k + 1, ix2) : ix2 \in TakeDraw(k, ix)}

UnreadRefund ==
    [n |-> 0, maker |-> Unread, maker_signer |-> FALSE, escrow_account |-> Unread,
     mint_a |-> Unread, mint_b |-> Unread, maker_ata_a |-> Unread,
     escrow_ata |-> Unread, maker_writable |-> FALSE]

RefundDraw(k, ix) ==
    CASE k = 1 -> {[ix EXCEPT !.n = n] : n \in (RefundAccounts - 1)..RefundAccounts}
      [] k = 2 -> {[ix EXCEPT !.maker = m, !.maker_signer = b] :
                      m \in Wallets, b \in BOOLEAN}
      [] k = 3 -> {[ix EXCEPT !.escrow_account = e] : e \in EscrowAddrs}
      [] k = 4 -> {[ix EXCEPT !.mint_a = a, !.mint_b = b] : a \in Mints, b \in Mints}
      [] k = 5 -> {[ix EXCEPT !.maker_ata_a = a] : a \in TokenAddrs}
      [] k = 6 -> {[ix EXCEPT !.escrow_ata = a] : a \in TokenAddrs}
      [] OTHER -> {[ix EXCEPT !.maker_writable = b, !.n = n] :
                      b \in BOOLEAN, n \in RefundAccounts..(RefundAccounts + 1)}

RECURSIVE RefundIxs(_, _, _)
RefundIxs(s, k, ix) ==
    IF k > 7 \/ process_refund_instruction(s, ix).reads < k THEN {ix}
    ELSE UNION {RefundIxs(s, k + 1, ix2) : ix2 \in RefundDraw(k, ix)}

UnreadMake ==
    [maker |-> Unread, maker_signer |-> FALSE, escrow_account |-> Unread, bump |-> 0,
     mint_a |-> Unread, maker_ata_a |-> Unread, vault |-> Unread, mint_b |-> Unread,
     amount_to_receive |-> 0, amount_to_give |-> 0]

MakeDraw(k, ix) ==
    CASE k = 1 -> {[ix EXCEPT !.maker = m, !.maker_signer = b] :
                      m \in Makers, b \in BOOLEAN}
      [] k = 2 -> {[ix EXCEPT !.escrow_account = e, !.bump = b] :
                      e \in EscrowAddrs, b \in Bumps}
      [] k = 3 -> {[ix EXCEPT !.mint_a = m, !.maker_ata_a = a] :
                      m \in Mints, a \in TokenAddrs}
      [] k = 4 -> {[ix EXCEPT !.vault = a] : a \in TokenAddrs}
      [] OTHER -> {[ix EXCEPT !.mint_b = m, !.amount_to_receive = r,
                              !.amount_to_give = g] :
                      m \in Mints, r \in Amounts, g \in Amounts}

RECURSIVE MakeIxs(_, _, _)
MakeIxs(s, k, ix) ==
    IF k > 5 \/ process_make_instruction(s, ix).reads < k THEN {ix}
    ELSE UNION {MakeIxs(s, k + 1, ix2) : ix2 \in MakeDraw(k, ix)}

---------------------------------------------------------------------------
(* The runtime: an instruction's changes are committed only when the handler
   returns Ok and the instruction left the total reserve unchanged. *)

Cur == [tokens |-> tokens, escrows |-> escrows, lamports |-> lamports]

Outcome(s, r) ==
    IF r.err # "Ok" THEN [err |-> r.err, s |-> s]
    ELSE IF TotalLamports(r.s) # TotalLamports(s)
         THEN [err |-> "UnbalancedInstruction", s |-> s]
    ELSE [err |-> "Ok", s |-> r.s]

Idle == [op |-> "Idle", ix |-> <<>>, err |-> "Ok", log |-> <<>>, pre |-> <<>>]

NoGhost ==
    [status |-> "none", vault |-> "-", rec |-> ClosedAccount, settles |-> 0,
     paid |-> [account |-> "-", from |-> "-", mint |-> "-", owner |-> "-", amount |-> 0]]

\* what the account credited on the maker's side gained
Credit(pre, post, account, from) ==
    [account |-> account, from |-> from, mint |-> pre.tokens[account].mint,
     owner |-> pre.tokens[account].owner,
     amount |-> post.tokens[account].amount - pre.tokens[account].amount]

Commit(op, ix, r, o, g) ==
    /\ tokens' = o.s.tokens
    /\ escrows' = o.s.escrows
    /\ lamports' = o.s.lamports
    /\ ghost' = IF o.err = "Ok" THEN g ELSE ghost
    /\ last' = [op |-> op, ix |-> ix, err |-> o.err, log |-> r.log, pre |-> Cur]

Init ==
    /\ tokens =
        [a \in TokenAddrs |->
            IF a = get_associated_token_address("M", "A")
            THEN [exists |-> TRUE, owner |-> "M", mint |-> "A", amount |-> InitBalance,
                  lamports |-> Rent]
            ELSE IF a = get_associated_token_address("M", "B")
            THEN [exists |-> TRUE, owner |-> "M", mint |-> "B", amount |-> 0,
                  lamports |-> Rent]
            ELSE IF a = get_associated_token_address("T", "A")
            THEN [exists |-> TRUE, owner |-> "T", mint |-> "A", amount |-> 0,
                  lamports |-> Rent]
            ELSE IF a = get_associated_token_address("T", "B")
            THEN [exists |-> TRUE, owner |-> "T", mint |-> "B", amount |-> InitBalance,
                  lamports |-> Rent]
            ELSE NoToken]
    /\ escrows = [e \in EscrowAddrs |-> IF e = Forged THEN ForgedAccount ELSE ClosedAccount]
    /\ lamports = [w \in Wallets |-> InitLamports]
    /\ ghost = [e \in EscrowAddrs |-> NoGhost]
    /\ budget = [makes |-> MaxMakes, env |-> MaxEnv]
    /\ last = Idle

Make ==
    /\ last.op = "Idle"
    /\ budget.makes > 0
    /\ \E ix \in MakeIxs(Cur, 1, UnreadMake) :
        LET r == process_make_instruction(Cur, ix)
            o == Outcome(Cur, r)
        IN  /\ Commit("Make", ix, r, o,
                      [ghost EXCEPT ![ix.escrow_account] =
                          [NoGhost EXCEPT !.status = "open", !.vault = ix.vault,
                                          !.rec = MakeRecord(ix)]])
            /\ budget' = IF o.err = "Ok" THEN [budget EXCEPT !.makes = @ - 1] ELSE budget

Take ==
    /\ last.op = "Idle"
    /\ \E ix \in TakeIxs(Cur, 1, UnreadTake) :
        LET r == process_take_instruction(Cur, ix)
            o == Outcome(Cur, r)
        IN  Commit("Take", ix, r, o,
                   [ghost EXCEPT ![ix.escrow_account].status = "taken",
                                 ![ix.escrow_account].settles = @ + 1,
                                 ![ix.escrow_account].paid =
                                     Credit(Cur, o.s, ix.maker_ata_b, ix.taker_ata_b)])
    /\ UNCHANGED budget

Refund ==
    /\ last.op = "Idle"
    /\ \E ix \in RefundIxs(Cur, 1, UnreadRefund) :
        LET r == process_refund_instruction(Cur, ix)
            o == Outcome(Cur, r)
        IN  Commit("Refund", ix, r, o,
                   [ghost EXCEPT ![ix.escrow_account].status = "refunded",
                                 ![ix.escrow_account].settles = @ + 1,
                                 ![ix.escrow_account].paid =
                                     Credit(Cur, o.s, ix.maker_ata_a, ix.escrow_ata)])
    /\ UNCHANGED budget

\* the result has been returned to the client; the next instruction may run
NextTransaction ==
    /\ last.op # "Idle"
    /\ last' = Idle
    /\ UNCHANGED <<tokens, escrows, lamports, ghost, budget>>

\* a third party (the taker's wallet) moves one unit of its tokens into a token
\* account held by an escrow address
ThirdPartyTransfer ==
    /\ last.op = "Idle"
    /\ budget.env > 0
    /\ \E from \in TokenAddrs, to \in TokenAddrs :
        /\ TokenLoads(Cur, from) /\ TokenLoads(Cur, to)
        /\ tokens[from].owner = "T"
        /\ tokens[to].owner \in PDAs
        /\ LET r == TokenTransfer(Cur, from, to, "T", TRUE, 1) IN
            /\ r.err = "Ok"
            /\ tokens' = r.s.tokens
    /\ budget' = [budget EXCEPT !.env = @ - 1]
    /\ UNCHANGED <<escrows, lamports, ghost, last>>

\* a third party creates a token account, at an address of its own choosing,
\* whose authority is an escrow address
ThirdPartyInitializeAccount ==
    /\ last.op = "Idle"
    /\ budget.env > 0
    /\ ~TokenLoads(Cur, Fake)
    /\ lamports["T"] >= Rent
    /\ \E owner \in PDAs, mint \in Mints :
        tokens' = [tokens EXCEPT ![Fake] =
                      [exists |-> TRUE, owner |-> owner, mint |-> mint, amount |-> 0,
                       lamports |-> Rent]]
    /\ lamports' = [lamports EXCEPT !["T"] = @ - Rent]
    /\ budget' = [budget EXCEPT !.env = @ - 1]
    /\ UNCHANGED <<escrows, ghost, last>>

\* a third party (the taker's wallet) transfers part of its reserve to the
\* maker's wallet while an escrow is open.  Only amounts that bring the maker's
\* reserve within two deposits of the largest balance are drawn: below that
\* no addition of the handlers comes near it.
ThirdPartyFund ==
    /\ last.op = "Idle"
    /\ budget.env > 0
    /\ \E e \in PDAs : owned_by(Cur, e, ID)
    /\ \E d \in 1..lamports["T"] :
        /\ lamports["M"] + d <= U64Max
        /\ lamports["M"] + d >= U64Max - (Rent + Rent)
        /\ lamports' = [lamports EXCEPT !["T"] = @ - d, !["M"] = @ + d]
    /\ budget' = [budget EXCEPT !.env = @ - 1]
    /\ UNCHANGED <<tokens, escrows, ghost, last>>

Next ==
    \/ Make
    \/ Take
    \/ Refund
    \/ NextTransaction
    \/ ThirdPartyTransfer
    \/ ThirdPartyInitializeAccount

Spec == Init /\ [][Next]_vars

\* the program with a third party that moves reserve instead of tokens
NextFunded ==
    \/ Make
    \/ Take
    \/ Refund
    \/ NextTransaction
    \/ ThirdPartyFund

SpecFunded == Init /\ [][NextFunded]_vars

---------------------------------------------------------------------------
(* Properties *)

TakeOk == last.op = "Take" /\ last.err = "Ok"
RefundOk == last.op = "Refund" /\ last.err = "Ok"
MakeOk == last.op = "Make" /\ last.err = "Ok"

\* the escrow record the last instruction named, as it was before it ran
PreRec == last.pre.escrows[last.ix.escrow_account]

Balance(s, account) == s.tokens[account].amount

\* the last instruction named a derived escrow address
NamesEscrow == last.ix.escrow_account \in PDAs

Unchanged == Cur = last.pre

TakeAccountsDistinct ==
    /\ last.ix.taker_ata_b # last.ix.maker_ata_b
    /\ last.ix.taker_ata_b # last.ix.taker_ata_a
    /\ last.ix.maker_ata_b # last.ix.taker_ata_a

TakeMovesFunds ==
    /\ Balance(Cur, last.ix.maker_ata_b)
           = Balance(last.pre, last.ix.maker_ata_b) + PreRec.amount_to_receive
    /\ Balance(Cur, last.ix.taker_ata_a)
           = Balance(last.pre, last.ix.taker_ata_a) + PreRec.amount_to_give
    /\ Balance(Cur, last.ix.taker_ata_b)
           = Balance(last.pre, last.ix.taker_ata_b) - PreRec.amount_to_receive

TakeClosesEscrow ==
    /\ ~TokenLoads(Cur, last.ix.escrow_ata)
    /\ escrows[last.ix.escrow_account] = ClosedAccount

\* C1 as stated: after any successful Take the maker's asset-B account holds
\* amount_to_receive more, the taker's asset-A account amount_to_give more, the
\* taker's asset-B account amount_to_receive less, and the custody account and
\* the record are gone.
C1_TakeEffect_AsStated == TakeOk => (TakeMovesFunds /\ TakeClosesEscrow)

\* C1 (amended): after a successful Take the custody account and the record
\* are gone, and when the three supplied token accounts (taker's B, maker's B,
\* taker's A) are different accounts the three balances change by exactly
\* amount_to_receive, amount_to_give and amount_to_receive.
C1_TakeEffect ==
    TakeOk => (TakeClosesEscrow /\ (TakeAccountsDistinct => TakeMovesFunds))

C1_Witness == TakeOk /\ TakeAccountsDistinct /\ last.ix.taker = "T"

\* C2: a Take succeeds only if the supplied mint_a and mint_b are the mints
\* stored in the record and the supplied token accounts are denominated in
\* them (taker's and maker's B accounts in mint_b, taker's A account and the
\* custody account in mint_a).
C2_TakeChecksStoredMints ==
    TakeOk =>
        /\ last.ix.mint_a = PreRec.mint_a
        /\ last.ix.mint_b = PreRec.mint_b
        /\ last.pre.tokens[last.ix.taker_ata_b].mint = PreRec.mint_b
        /\ last.pre.tokens[last.ix.maker_ata_b].mint = PreRec.mint_b
        /\ last.pre.tokens[last.ix.taker_ata_a].mint = PreRec.mint_a
        /\ last.pre.tokens[last.ix.escrow_ata].mint = PreRec.mint_a

\* C3: for each record created by Make at most one Take or Refund succeeds;
\* once one has, the record is no longer owned by the program, and every later
\* Take or Refund that names it (and passes the account-count and signer
\* checks that precede the ownership check) fails with IllegalOwner and
\* changes nothing.
C3_FirstSettlementWins ==
    /\ \A e \in PDAs : ghost[e].settles <= 1
    /\ \A e \in PDAs :
          ghost[e].status \in {"taken", "refunded"} => ~owned_by(Cur, e, ID)
    /\ (/\ last.op \in {"Take", "Refund"}
        /\ NamesEscrow
        /\ ~owned_by(last.pre, last.ix.escrow_account, ID))
          => (last.err = "IllegalOwner" /\ Unchanged)

C3_Witness ==
    /\ last.op = "Refund"
    /\ NamesEscrow
    /\ ghost[last.ix.escrow_account].status = "taken"
    /\ last.err = "IllegalOwner"

\* the maker-side outcome of the escrow opened at e
StillInCustody(e) ==
    /\ ghost[e].status = "open"
    /\ TokenLoads(Cur, ghost[e].vault)
    /\ tokens[ghost[e].vault].amount >= ghost[e].rec.amount_to_give

ReturnedToMaker(e) ==
    /\ ghost[e].status = "refunded"
    /\ ghost[e].paid.owner = ghost[e].rec.maker
    /\ ghost[e].paid.mint = ghost[e].rec.mint_a
    /\ ghost[e].paid.amount = ghost[e].rec.amount_to_give

\* a maker who takes their own escrow, paying from the very account that is
\* paid, counts as paid
MakerPaid(e) ==
    /\ ghost[e].status = "taken"
    /\ ghost[e].paid.owner = ghost[e].rec.maker
    /\ ghost[e].paid.mint = ghost[e].rec.mint_b
    /\ \/ ghost[e].paid.amount = ghost[e].rec.amount_to_receive
       \/ ghost[e].paid.from = ghost[e].paid.account

\* C4: for every escrow the maker opened, the deposit is still in the custody
\* account, or Refund returned amount_to_give of mint_a to a maker-owned
\* account, or Take credited a maker-owned account with amount_to_receive of
\* the mint_b stored in the record.
C4_MakerPaidOrRefunded ==
    \A e \in PDAs :
        ghost[e].status # "none" =>
            (StillInCustody(e) \/ ReturnedToMaker(e) \/ MakerPaid(e))

\* C5: after a successful Refund the maker's asset-A account holds exactly
\* amount_to_give more, the custody account and the record are gone, and a
\* Take that names the escrow while its record is gone fails.
C5_RefundEffect ==
    /\ RefundOk =>
        /\ Balance(Cur, last.ix.maker_ata_a)
               = Balance(last.pre, last.ix.maker_ata_a) + PreRec.amount_to_give
        /\ ~TokenLoads(Cur, last.ix.escrow_ata)
        /\ escrows[last.ix.escrow_account] = ClosedAccount
    /\ \A e \in PDAs : ghost[e].status = "refunded" => escrows[e] = ClosedAccount
    /\ (/\ last.op = "Take"
        /\ NamesEscrow
        /\ last.pre.escrows[last.ix.escrow_account] = ClosedAccount)
          => last.err # "Ok"

C5_Witness ==
    /\ RefundOk
    /\ last.ix.escrow_ata = ghost[last.ix.escrow_account].vault
    /\ Balance(Cur, last.ix.maker_ata_a) = InitBalance

C5_TakeAfterRefund_Witness ==
    /\ last.op = "Take"
    /\ NamesEscrow
    /\ ghost[last.ix.escrow_account].status = "refunded"
    /\ last.err # "Ok"

\* C6: a Refund succeeds only if the account in the maker position signed and
\* is the maker stored in the record; without the signature it fails with
\* MissingRequiredSignature, and signed by anyone but the stored maker of a
\* program-owned record it fails with InvalidAccountData; a failed Refund
\* moves nothing.
C6_RefundOnlyByMaker ==
    last.op = "Refund" =>
        /\ last.err = "Ok" => (last.ix.maker_signer /\ last.ix.maker = PreRec.maker)
        /\ (last.ix.n >= RefundAccounts /\ ~last.ix.maker_signer)
              => (last.err = "MissingRequiredSignature" /\ Unchanged)
        /\ (/\ NamesEscrow
            /\ owned_by(last.pre, last.ix.escrow_account, ID)
            /\ last.ix.maker # PreRec.maker)
              => (last.err = "InvalidAccountData" /\ Unchanged)

C6_Witness ==
    /\ last.op = "Refund"
    /\ NamesEscrow
    /\ owned_by(last.pre, last.ix.escrow_account, ID)
    /\ last.ix.maker = "T"
    /\ last.ix.maker_signer
    /\ last.err = "InvalidAccountData"

\* the validation sequence of Take (specification 4.3, checks 1 to 8), on the
\* accounts as they were before the instruction
TakeChecksPass ==
    /\ last.ix.n >= TakeAccounts
    /\ last.ix.taker_signer
    /\ owned_by(last.pre, last.ix.escrow_account, ID)
    /\ PreRec.maker = last.ix.maker
    /\ derive_address(last.ix.maker, PreRec.bump) = last.ix.escrow_account
    /\ TokenLoads(last.pre, last.ix.taker_ata_b)
    /\ last.pre.tokens[last.ix.taker_ata_b].owner = last.ix.taker
    /\ last.pre.tokens[last.ix.taker_ata_b].mint = last.ix.mint_b
    /\ TokenLoads(last.pre, last.ix.maker_ata_b)
    /\ last.pre.tokens[last.ix.maker_ata_b].owner = last.ix.maker
    /\ last.pre.tokens[last.ix.maker_ata_b].mint = last.ix.mint_b
    /\ TokenLoads(last.pre, last.ix.taker_ata_a)
    /\ last.pre.tokens[last.ix.taker_ata_a].owner = last.ix.taker
    /\ last.pre.tokens[last.ix.taker_ata_a].mint = last.ix.mint_a
    /\ TokenLoads(last.pre, last.ix.escrow_ata)
    /\ last.pre.tokens[last.ix.escrow_ata].owner = last.ix.escrow_account
    /\ last.pre.tokens[last.ix.escrow_ata].mint = last.ix.mint_a
    /\ last.pre.tokens[last.ix.escrow_ata].amount >= PreRec.amount_to_give

\* the validation sequence of Refund (specification 4.4, checks 1 to 6)
RefundChecksPass ==
    /\ last.ix.n >= RefundAccounts
    /\ last.ix.maker_signer
    /\ owned_by(last.pre, last.ix.escrow_account, ID)
    /\ PreRec.maker = last.ix.maker
    /\ PreRec.mint_a = last.ix.mint_a
    /\ PreRec.mint_b = last.ix.mint_b
    /\ derive_address(last.ix.maker, PreRec.bump) = last.ix.escrow_account
    /\ TokenLoads(last.pre, last.ix.maker_ata_a)
    /\ last.pre.tokens[last.ix.maker_ata_a].owner = last.ix.maker
    /\ last.pre.tokens[last.ix.maker_ata_a].mint = last.ix.mint_a
    /\ TokenLoads(last.pre, last.ix.escrow_ata)
    /\ last.pre.tokens[last.ix.escrow_ata].owner = last.ix.escrow_account
    /\ last.pre.tokens[last.ix.escrow_ata].mint = last.ix.mint_a
    /\ last.pre.tokens[last.ix.escrow_ata].amount >= PreRec.amount_to_give

\* C7: a Take or Refund that fails leaves token balances, reserves, the record
\* and the custody account as they were, and no transfer or closure is
\* executed unless every validation check of the handler has passed.
C7_FailureChangesNothing ==
    /\ (last.op \in {"Take", "Refund"} /\ last.err # "Ok") => Unchanged
    /\ (last.op = "Take" /\ ~TakeChecksPass) => (last.err # "Ok" /\ last.log = <<>>)
    /\ (last.op = "Refund" /\ ~RefundChecksPass) => (last.err # "Ok" /\ last.log = <<>>)

\* a Take that fails after both transfers were executed
C7_Witness ==
    /\ last.op = "Take"
    /\ last.err = "NonNativeHasBalance"
    /\ last.log = <<"transfer_b", "transfer_a">>

C7_Validation_Witness ==
    /\ last.op = "Take"
    /\ last.err = "InvalidAccountData"
    /\ TokenLoads(last.pre, last.ix.escrow_ata)
    /\ last.pre.tokens[last.ix.escrow_ata].owner = last.ix.escrow_account
    /\ last.pre.tokens[last.ix.escrow_ata].mint = last.ix.mint_a
    /\ last.pre.tokens[last.ix.escrow_ata].amount < PreRec.amount_to_give

\* C8: while the record exists the custody account Make created for it exists,
\* has the record's address as authority, is denominated in the record's mint_a
\* and holds at least amount_to_give; once Take or Refund has destroyed the
\* record, that custody account is closed.
C8_RecordAndCustodyTogether ==
    \A e \in PDAs :
        /\ owned_by(Cur, e, ID) =>
            /\ TokenLoads(Cur, ghost[e].vault)
            /\ tokens[ghost[e].vault].owner = e
            /\ tokens[ghost[e].vault].mint = escrows[e].mint_a
            /\ tokens[ghost[e].vault].amount >= escrows[e].amount_to_give
        /\ ghost[e].status \in {"taken", "refunded"} => ~TokenLoads(Cur, ghost[e].vault)

\* C9: a Take whose taker asset-B account holds fewer than amount_to_receive
\* fails and changes nothing: all balances are as before, and the record and
\* the custody account still exist.
C9_TakerCannotPay ==
    (/\ last.op = "Take"
     /\ NamesEscrow
     /\ owned_by(last.pre, last.ix.escrow_account, ID)
     /\ TokenLoads(last.pre, last.ix.taker_ata_b)
     /\ Balance(last.pre, last.ix.taker_ata_b) < PreRec.amount_to_receive)
        => /\ last.err # "Ok"
           /\ Unchanged
           /\ owned_by(Cur, last.ix.escrow_account, ID)
           /\ TokenLoads(Cur, ghost[last.ix.escrow_account].vault)

C9_Witness ==
    /\ last.op = "Take"
    /\ last.err = "InsufficientFunds"
    /\ TakeChecksPass
    /\ Balance(last.pre, last.ix.taker_ata_b) < PreRec.amount_to_receive

\* C10: after a successful Make the custody account holds exactly
\* amount_to_give, the maker's source account holds amount_to_give less, and
\* the record at derive(["escrow", maker, bump]) holds the supplied maker,
\* mints, amounts and bump.
C10_MakeEffect ==
    MakeOk =>
        /\ last.ix.maker_signer
        /\ last.ix.escrow_account = derive_address(last.ix.maker, last.ix.bump)
        /\ Balance(Cur, last.ix.vault) = last.ix.amount_to_give
        /\ tokens[last.ix.vault].owner = last.ix.escrow_account
        /\ tokens[last.ix.vault].mint = last.ix.mint_a
        /\ Balance(Cur, last.ix.maker_ata_a)
               = Balance(last.pre, last.ix.maker_ata_a) - last.ix.amount_to_give
        /\ owned_by(Cur, last.ix.escrow_account, ID)
        /\ escrows[last.ix.escrow_account].maker = last.ix.maker
        /\ escrows[last.ix.escrow_account].mint_a = last.ix.mint_a
        /\ escrows[last.ix.escrow_account].mint_b = last.ix.mint_b
        /\ escrows[last.ix.escrow_account].amount_to_receive = last.ix.amount_to_receive
        /\ escrows[last.ix.escrow_account].amount_to_give = last.ix.amount_to_give
        /\ escrows[last.ix.escrow_account].bump = last.ix.bump

C10_Witness ==
    /\ MakeOk
    /\ last.ix.amount_to_give # last.ix.amount_to_receive
    /\ last.ix.mint_a # last.ix.mint_b

\* the outcome of the last instruction had it been submitted with n accounts
TakeWithCount(n) ==
    Outcome(last.pre, process_take_instruction(last.pre, [last.ix EXCEPT !.n = n]))

RefundWithCount(n) ==
    Outcome(last.pre, process_refund_instruction(last.pre, [last.ix EXCEPT !.n = n]))

\* C11 as stated: a Take whose account list does not have exactly 10 accounts,
\* and a Refund whose list does not have exactly 7, is rejected.
C11_ExactCount_AsStated ==
    /\ (last.op = "Take" /\ last.ix.n # TakeAccounts) => last.err # "Ok"
    /\ (last.op = "Refund" /\ last.ix.n # RefundAccounts) => last.err # "Ok"

\* C11 (amended): a Take with fewer than 10 accounts and a Refund with fewer
\* than 7 fails with NotEnoughAccountKeys and changes nothing; accounts that
\* follow the required ones are ignored, the instruction ends exactly as it
\* would with the required accounts alone.
C11_AtLeastCount ==
    /\ (last.op = "Take" /\ last.ix.n < TakeAccounts)
          => (last.err = "NotEnoughAccountKeys" /\ Unchanged /\ last.log = <<>>)
    /\ (last.op = "Refund" /\ last.ix.n < RefundAccounts)
          => (last.err = "NotEnoughAccountKeys" /\ Unchanged /\ last.log = <<>>)
    /\ (last.op = "Take" /\ last.ix.n > TakeAccounts)
          => (last.err = TakeWithCount(TakeAccounts).err
                 /\ Cur = TakeWithCount(TakeAccounts).s)
    /\ (last.op = "Refund" /\ last.ix.n > RefundAccounts)
          => (last.err = RefundWithCount(RefundAccounts).err
                 /\ Cur = RefundWithCount(RefundAccounts).s)

\* a Take that succeeds with an account after the ten required ones
C11_Witness == TakeOk /\ last.ix.n > TakeAccounts /\ NamesEscrow

C11_Refund_Witness == RefundOk /\ last.ix.n > RefundAccounts

C11_Short_Witness == last.op = "Take" /\ last.ix.n < TakeAccounts

\* a token account in a holding position fails its check
HoldingInvalid(account, owner, mint) ==
    \/ ~TokenLoads(last.pre, account)
    \/ last.pre.tokens[account].owner # owner
    \/ last.pre.tokens[account].mint # mint

CustodyInvalid ==
    \/ HoldingInvalid(last.ix.escrow_ata, last.ix.escrow_account, last.ix.mint_a)
    \/ last.pre.tokens[last.ix.escrow_ata].amount < PreRec.amount_to_give

\* the error of the first failing check of Take in the documented order
\* (specification 4.3), "none" when every check passes
TakeDocumentedError ==
    IF last.ix.n < TakeAccounts THEN "NotEnoughAccountKeys"
    ELSE IF ~last.ix.taker_signer THEN "MissingRequiredSignature"
    ELSE IF ~owned_by(last.pre, last.ix.escrow_account, ID) THEN "IllegalOwner"
    ELSE IF PreRec.maker # last.ix.maker THEN "InvalidAccountData"
    ELSE IF derive_address(last.ix.maker, PreRec.bump) # last.ix.escrow_account
         THEN "InvalidSeeds"
    ELSE IF HoldingInvalid(last.ix.taker_ata_b, last.ix.taker, last.ix.mint_b)
         THEN "InvalidAccountData"
    ELSE IF HoldingInvalid(last.ix.maker_ata_b, last.ix.maker, last.ix.mint_b)
         THEN "InvalidAccountData"
    ELSE IF HoldingInvalid(last.ix.taker_ata_a, last.ix.taker, last.ix.mint_a)
         THEN "InvalidAccountData"
    ELSE IF CustodyInvalid THEN "InvalidAccountData"
    ELSE "none"

\* the same for Refund (specification 4.4)
RefundDocumentedError ==
    IF last.ix.n < RefundAccounts THEN "NotEnoughAccountKeys"
    ELSE IF ~last.ix.maker_signer THEN "MissingRequiredSignature"
    ELSE IF ~owned_by(last.pre, last.ix.escrow_account, ID) THEN "IllegalOwner"
    ELSE IF \/ PreRec.maker # last.ix.maker
            \/ PreRec.mint_a # last.ix.mint_a
            \/ PreRec.mint_b # last.ix.mint_b
         THEN "InvalidAccountData"
    ELSE IF derive_address(last.ix.maker, PreRec.bump) # last.ix.escrow_account
         THEN "InvalidSeeds"
    ELSE IF HoldingInvalid(last.ix.maker_ata_a, last.ix.maker, last.ix.mint_a)
         THEN "InvalidAccountData"
    ELSE IF CustodyInvalid THEN "InvalidAccountData"
    ELSE "none"

\* C12: a Take or Refund that fails a validation check returns the error of
\* the first check that fails in the documented order (account count, signer,
\* record ownership, stored maker and mints, address derivation, holding
\* accounts, custody account), whatever later checks fail too, and executes
\* no transfer or closure.
C12_FirstFailingCheck ==
    /\ (last.op = "Take" /\ TakeDocumentedError # "none")
          => (last.err = TakeDocumentedError /\ last.log = <<>>)
    /\ (last.op = "Refund" /\ RefundDocumentedError # "none")
          => (last.err = RefundDocumentedError /\ last.log = <<>>)

\* the stored maker differs and the address does not derive from the supplied
\* maker either: the earlier check's error is returned
C12_Witness ==
    /\ last.op = "Take"
    /\ NamesEscrow
    /\ owned_by(last.pre, last.ix.escrow_account, ID)
    /\ PreRec.maker # last.ix.maker
    /\ derive_address(last.ix.maker, PreRec.bump) # last.ix.escrow_account
    /\ last.err = "InvalidAccountData"

\* the stored maker matches and the address does not derive from it
C12_Seeds_Witness ==
    /\ last.op = "Take"
    /\ PreRec.maker = last.ix.maker
    /\ last.err = "InvalidSeeds"

\* the stored mints differ and so would the maker's account
C12_Refund_Witness ==
    /\ last.op = "Refund"
    /\ NamesEscrow
    /\ owned_by(last.pre, last.ix.escrow_account, ID)
    /\ PreRec.maker = last.ix.maker
    /\ PreRec.mint_a # last.ix.mint_a
    /\ last.err = "InvalidAccountData"

\* the reserves a settlement returns: of the supplied custody account and of
\* the record, before the instruction
ReservesReturned == last.pre.tokens[last.ix.escrow_ata].lamports + PreRec.lamports

C13_Saturation_Witness ==
    /\ last.op = "Refund"
    /\ last.err = "UnbalancedInstruction"
    /\ last.pre.lamports[last.ix.maker] + ReservesReturned > U64Max

\* a Take in which crediting the custody account's reserve already exceeds it
C13_Overflow_Witness ==
    /\ last.op = "Take"
    /\ last.err = "Overflow"
    /\ last.log = <<"transfer_b", "transfer_a">>

\* the steps of Take in the documented order (specification 4.3, Effect)
TakeOrder == <<"transfer_b", "transfer_a", "close_vault", "reclaim">>

\* the taker-authorized transfer, invoked on the accounts as they were before
\* the instruction
TakerTransfer ==
    TokenTransfer(last.pre, last.ix.taker_ata_b, last.ix.maker_ata_b, last.ix.taker,
                  last.ix.taker_signer, PreRec.amount_to_receive)

\* C14: the steps a Take has executed are always an initial part of: the
\* taker's transfer of amount_to_receive, the program's transfer of
\* amount_to_give, the custody closure, the record's destruction; a
\* successful Take has executed all four; and when the taker's transfer fails
\* on the accounts as they were, none of the steps is executed, its error is
\* returned and nothing changes.
C14_TakerPaysFirst ==
    last.op = "Take" =>
        /\ last.log = SubSeq(TakeOrder, 1, Len(last.log))
        /\ last.err = "Ok" => last.log = TakeOrder
        /\ (TakeChecksPass /\ TakerTransfer.err # "Ok")
              => (last.err = TakerTransfer.err /\ last.log = <<>> /\ Unchanged)

\* the taker pays from the account that is to receive the deposit and cannot
\* pay before receiving it: releasing the deposit first would have let this
\* Take through
C14_Witness ==
    /\ last.op = "Take"
    /\ TakeChecksPass
    /\ last.ix.taker_ata_b = last.ix.taker_ata_a
    /\ last.ix.taker_ata_b # last.ix.maker_ata_b
    /\ Balance(last.pre, last.ix.taker_ata_b) < PreRec.amount_to_receive
    /\ Balance(last.pre, last.ix.taker_ata_b) + PreRec.amount_to_give
           >= PreRec.amount_to_receive
    /\ last.err = "InsufficientFunds"
    /\ last.log = <<>>

\* a Take that stops between the program's transfer and the closure
C14_Order_Witness ==
    /\ last.op = "Take"
    /\ last.err # "Ok"
    /\ last.log = SubSeq(TakeOrder, 1, 2)

MakerReserveUntouched == lamports[last.ix.maker] = last.pre.lamports[last.ix.maker]

\* C15: Take changes no account that its account list does not mark writable:
\* a Take that marks the maker read-only, as the interface lists it, and has
\* made both transfers settles the escrow and leaves the maker's reserve as
\* it was.
C15_ReadOnlyMakerUntouched ==
    (last.op = "Take" /\ ~last.ix.maker_writable /\ Len(last.log) >= 2)
        => (last.err = "Ok" /\ MakerReserveUntouched)

\* what the handler does instead: a Take succeeds only with the maker marked
\* writable, and then raises the maker's reserve
C15_SuccessWritesMaker ==
    TakeOk => (last.ix.maker_writable /\ ~MakerReserveUntouched)

\* the last instruction is a Refund of an existing record as its maker would
\* submit it: signed by the stored maker, with the stored mints, a mint_a
\* account of the maker and the custody account Make created (the maker
\* marked writable wherever the handler got as far as crediting it)
MakerCancels ==
    /\ last.op = "Refund"
    /\ NamesEscrow
    /\ owned_by(last.pre, last.ix.escrow_account, ID)
    /\ last.ix.n >= RefundAccounts
    /\ last.ix.maker_signer
    /\ last.ix.maker = PreRec.maker
    /\ last.ix.mint_a = PreRec.mint_a
    /\ last.ix.mint_b = PreRec.mint_b
    /\ TokenLoads(last.pre, last.ix.maker_ata_a)
    /\ last.pre.tokens[last.ix.maker_ata_a].owner = last.ix.maker
    /\ last.pre.tokens[last.ix.maker_ata_a].mint = last.ix.mint_a
    /\ last.ix.escrow_ata = ghost[last.ix.escrow_account].vault
    /\ (last.ix.maker_writable \/ last.log = <<>>)

\* C16: in every reachable state in which the record exists, a Refund by the
\* stored maker with the stored mints, a maker-owned mint_a account and the
\* escrow's custody account succeeds, also when the custody account holds
\* more than amount_to_give.
C16_MakerCanAlwaysCancel == MakerCancels => last.err = "Ok"

\* what the handler guarantees: such a Refund succeeds when the custody
\* account holds exactly amount_to_give, and fails at the closure when it
\* holds more
C16_CancelUnlessOverfunded ==
    MakerCancels =>
        IF Balance(last.pre, last.ix.escrow_ata) = PreRec.amount_to_give
        THEN last.err = "Ok"
        ELSE last.err = "NonNativeHasBalance" /\ last.log = <<"transfer_a">> /\ Unchanged

C17_Surplus_Witness ==
    /\ last.op = "Take"
    /\ last.err = "NonNativeHasBalance"
    /\ Balance(last.pre, last.ix.escrow_ata) > PreRec.amount_to_give
    /\ Unchanged

====
